---- MODULE Spec2Model ----
(***************************************************************************)
(* Model of the CloudFront lifecycle emulator: CloudFrontLifecycle (the    *)
(* stage engine), Origin (the upstream client) and BehaviorRouter (the     *)
(* pattern registry and listener).                                         *)
(*                                                                         *)
(* JavaScript values that are falsy (undefined, null, '', 0) are modelled  *)
(* by "" for strings and 0 for numbers: every place of the source that     *)
(* reads them does so through !x or x || y.                                *)
(***************************************************************************)
EXTENDS Integers, Sequences, FiniteSets, TLC

\* Number of lifecycle runs the listener has in flight at once.
MaxInFlight == 1

Slots == 1..MaxInFlight

\* Requests in flight at once where runs are interleaved.
MaxConcurrent == 2

ConcurrentSlots == 1..MaxConcurrent

\* Request paths (request.uri) the listener receives.
Uris == {"/index.html", "/other"}

\* Files that exist under the base directory of a file origin.
Files == {"/index.html"}

\* Status codes an upstream http/https server answers with.
UpstreamStatuses == {200, 503}

-----------------------------------------------------------------------------
(* Responses (CloudFrontResultResponse): status, statusDescription, body.  *)

NoResponse == [status |-> "", statusDescription |-> "", body |-> ""]

Response(status, description, body) ==
    [status |-> status, statusDescription |-> description, body |-> body]

\* The terminal Response a request handler generates, and the Response a
\* response handler substitutes for the one it is given.
ViewerRequestResponse == Response("302", "Found", "viewer-request")
OriginRequestResponse == Response("403", "Forbidden", "origin-request")
OriginResponseResponse == Response("200", "OK", "origin-response")
ViewerResponseResponse == Response("200", "OK", "viewer-response")

-----------------------------------------------------------------------------
(* Origin: target, kind and custom origin configuration.                   *)

\* A target (baseUrl) with the parts url.parse and the constructor's
\* regular expressions read from it.
Target(scheme, host, port, dir) ==
    [scheme |-> scheme, host |-> host, port |-> port, dir |-> dir]

EmptyTarget == Target("", "", 0, "")

Targets ==
    { EmptyTarget,
      Target("", "", 0, "/srv/www"),
      Target("http", "origin.test", 0, ""),
      Target("https", "origin.test", 0, ""),
      Target("https", "origin.test", 8443, "") }

\* url.parse: protocol keeps its trailing colon; a path has no protocol,
\* hostname or port.
Parse(target) ==
    [ protocol |-> IF target.scheme = "" THEN "" ELSE target.scheme \o ":",
      hostname |-> target.host,
      port     |-> target.port ]

\* protocol.substr(0, protocol.length - 1)
StripColon(protocol) ==
    CASE protocol = "http:"  -> "http"
      [] protocol = "https:" -> "https"
      [] OTHER               -> ""

\* customOrigin / request.origin.custom; present = FALSE is undefined.
Custom(domainName, protocol, port) ==
    [present |-> TRUE, domainName |-> domainName, protocol |-> protocol, port |-> port]

NoCustom == [present |-> FALSE, domainName |-> "", protocol |-> "", port |-> 0]

OriginType(baseUrl) ==
    IF baseUrl = EmptyTarget THEN "noop"
    ELSE IF baseUrl.scheme = "http" THEN "http"
    ELSE IF baseUrl.scheme = "https" THEN "https"
    ELSE "file"

\* new Origin(baseUrl, customOrigin)
Origin(baseUrl, customOrigin) ==
    LET parsed == Parse(baseUrl) IN
    [ type    |-> OriginType(baseUrl),
      baseUrl |-> baseUrl,
      customOrigin |->
        IF ~customOrigin.present THEN NoCustom
        ELSE [ present    |-> TRUE,
               domainName |-> IF customOrigin.domainName = "" THEN parsed.hostname
                              ELSE customOrigin.domainName,
               protocol   |-> IF customOrigin.protocol = "" /\ parsed.protocol # ""
                              THEN StripColon(parsed.protocol)
                              ELSE customOrigin.protocol,
               port       |-> IF customOrigin.port = 0 THEN parsed.port
                              ELSE customOrigin.port ] ]

\* The origin of the runs that are interleaved.
ConcurrentOrigin ==
    Origin(Target("http", "origin.test", 0, ""), Custom("alt.test", "https", 0))

\* The origins a FunctionSet is configured with.
OriginConfigs ==
    { Origin(t, NoCustom) : t \in Targets }
    \cup { Origin(Target("http", "origin.test", 0, ""), Custom("", "", 0)),
           Origin(Target("http", "origin.test", 0, ""), Custom("alt.test", "https", 0)),
           Origin(Target("https", "origin.test", 8443, ""), Custom("", "http", 8080)),
           Origin(Target("", "", 0, "/srv/www"), Custom("", "", 0)) }

-----------------------------------------------------------------------------
(* Origin.retrieve and the resources behind it.                            *)

\* What getResource settles with: a Resource, or a rejection.
Resource(hasStatus, statusCode, data) ==
    [kind |-> "resource", hasStatus |-> hasStatus, statusCode |-> statusCode,
     data |-> data, message |-> ""]

Rejection(message) ==
    [kind |-> "error", hasStatus |-> FALSE, statusCode |-> 0, data |-> "",
     message |-> message]

\* The contents fs.readFile yields for a file under the base directory.
FileContents(uri) == "contents of " \o uri

\* getFileResource: the Resource carries headers and data, and no statusCode.
GetFileResource(uri) ==
    IF uri \in Files THEN Resource(FALSE, 0, FileContents(uri))
    ELSE Rejection("ENOENT")

\* getResource for the kinds that settle without the network.
GetResource(origin, request) ==
    CASE origin.type = "file" -> GetFileResource(request.uri)
      [] origin.type = "noop" -> Rejection("Not Found")
      [] OTHER                -> Rejection("Invalid origin type")

\* (options.protocol || this.type).startsWith('https')
StartsWithHttps(s) == s \in {"https", "https:"}

\* getHttpResource testing the custom protocol the way it tests the parsed
\* one, with the colon.
HttpRequestOptionsColon(origin, request) ==
    LET baseUrl == Parse(origin.baseUrl)
        custom  == request.origin
    IN  IF custom.present
        THEN [ protocol |-> custom.protocol \o ":",
               hostname |-> custom.domainName,
               port     |-> IF custom.port # 0 THEN custom.port
                            ELSE IF custom.protocol = "https:" THEN 443 ELSE 80,
               path     |-> request.uri ]
        ELSE [ protocol |-> baseUrl.protocol,
               hostname |-> baseUrl.hostname,
               port     |-> IF baseUrl.port # 0 THEN baseUrl.port
                            ELSE IF baseUrl.protocol = "https:" THEN 443 ELSE 80,
               path     |-> request.uri ]

\* The http.RequestOptions getHttpResource builds.
HttpRequestOptions(origin, request) ==
    LET baseUrl == Parse(origin.baseUrl)
        custom  == request.origin
    IN  IF custom.present
        THEN [ protocol |-> custom.protocol \o ":",
               hostname |-> custom.domainName,
               port     |-> IF custom.port # 0 THEN custom.port
                            ELSE IF custom.protocol = "https" THEN 443 ELSE 80,
               path     |-> request.uri ]
        ELSE [ protocol |-> baseUrl.protocol,
               hostname |-> baseUrl.hostname,
               port     |-> IF baseUrl.port # 0 THEN baseUrl.port
                            ELSE IF baseUrl.protocol = "https:" THEN 443 ELSE 80,
               path     |-> request.uri ]

\* httpModule = isHttps ? https : http
HttpModule(origin, options) ==
    IF StartsWithHttps(IF options.protocol # "" THEN options.protocol ELSE origin.type)
    THEN "https" ELSE "http"

NoUpstream ==
    [protocol |-> "", hostname |-> "", port |-> 0, path |-> "", module |-> "",
     customHeaders |-> {}]

Upstream(origin, request) ==
    LET options == HttpRequestOptions(origin, request) IN
    [ protocol |-> options.protocol, hostname |-> options.hostname,
      port |-> options.port, path |-> options.path,
      module |-> HttpModule(origin, options),
      customHeaders |-> {} ]

\* err instanceof Boom.notFound.  Boom.notFound is a factory, not the class
\* of the errors it returns: no error has Boom.notFound.prototype in its
\* prototype chain.  Where the installed Boom defines notFound as an
\* ordinary function the test is false; where it defines it as a static
\* class method the function has no prototype property and the instanceof
\* expression itself throws a TypeError.
InstanceOfBoomNotFound(err, boomNotFound) ==
    IF boomNotFound = "method" THEN "throws" ELSE "false"

\* What retrieve settles with: a Response, or an error thrown out of it.
Retrieved(response) == [kind |-> "response", response |-> response, error |-> ""]
Thrown(error) == [kind |-> "throw", response |-> NoResponse, error |-> error]

\* Origin.retrieve, given what getResource settled with.
Retrieve(resource, boomNotFound) ==
    IF resource.kind = "resource"
    THEN Retrieved(Response(
            ToString(IF resource.hasStatus THEN resource.statusCode ELSE 0),
            "", resource.data))
    ELSE LET isNotFound == InstanceOfBoomNotFound(resource, boomNotFound) IN
         CASE isNotFound = "throws" -> Thrown("TypeError")
           [] isNotFound = "true"   -> Retrieved(Response("404", "", ""))
           [] OTHER                 -> Retrieved(Response("500", resource.message, ""))

-----------------------------------------------------------------------------
(* CacheService: one entry per key derived from the request.               *)

\* An entry holds the status and the body of the Response; saved is the
\* Response saveToCache was given, kept for the properties only.
NoEntry == [present |-> FALSE, status |-> "", body |-> "", saved |-> NoResponse]

EmptyCache == [k \in Uris |-> NoEntry]

\* The key of a request: its path, whatever origin parameters it carries.
CacheKey(request) == request.uri

RetrieveFromCache(store, request) == store[CacheKey(request)]

SaveToCache(store, request, response) ==
    [store EXCEPT ![CacheKey(request)] =
        [present |-> TRUE, status |-> response.status, body |-> response.body,
         saved |-> response]]

\* purge leaving the entry of one key in the store.
PurgeStoreButOne(store) ==
    [k \in DOMAIN store |-> IF k = "/other" THEN store[k] ELSE NoEntry]

\* purge: every entry is removed.
PurgeStore(store) == [k \in DOMAIN store |-> NoEntry]

\* toResultResponse: the Response rebuilt from a cache entry.
ToResultResponse(cached) == Response(cached.status, "", cached.body)

-----------------------------------------------------------------------------
(* CloudFrontLifecycle: one run per slot.                                  *)

VARIABLES
    origin,        \* fnSet.origin of the matched FunctionSet
    disableCache,  \* options.disableCache
    boomNotFound,  \* how the installed Boom defines notFound: "function" | "method"
    cache,         \* the CacheService store
    run,           \* per slot: the lifecycle instance and what it has done
    roundTrips,    \* full origin round trips completed since the last purge
    purged,        \* keys PURGE requests removed since the last saveToCache
    configHeaders  \* fnSet.origin.customOrigin.customHeaders, the object

lifecycleVars ==
    <<origin, disableCache, boomNotFound, cache, run, roundTrips, purged, configHeaders>>

\* The state of the BehaviorRouter.
VARIABLES
    functions,   \* serverless.service.functions, in declaration order
    originMap,   \* custom.offlineEdgeLambda.originMap
    handlerRoot, \* custom.offlineEdgeLambda.path
    behaviors,   \* the Map of FunctionSets, in insertion order
    built,       \* extractBehaviors has run
    matchUrl,    \* the URL of the last request given to match
    matchBuilt,  \* whether the behaviors were built when it was given
    matched      \* what match returned for it

routerVars ==
    <<functions, originMap, handlerRoot, behaviors, built, matchUrl, matchBuilt, matched>>

\* The ServerResponse of an inbound request: how many times it was ended,
\* and what it was ended with.
NoAnswer == [ends |-> 0, statusCode |-> 0, statusMessage |-> "", body |-> ""]

Answer(statusCode, statusMessage, body) ==
    [ends |-> 1, statusCode |-> statusCode, statusMessage |-> statusMessage,
     body |-> body]

\* The customHeaders of a custom origin configuration: an object holding
\* header names, or no such key.
NoHeaders == [configured |-> FALSE, names |-> {}]

Headers(names) == [configured |-> TRUE, names |-> names]

\* The header an origin-request handler adds for the request it serves.
HeaderFor(uri) == "x-path:" \o uri

\* request.origin is {custom} or absent; request.uri is the path.
Request(uri, custom) == [uri |-> uri, origin |-> custom]

IdleRun ==
    [ pc       |-> "idle",
      uri0     |-> "",                      \* the path the run was started for
      request  |-> Request("", NoCustom),   \* this.event.Records[0].cf.request
      result   |-> NoResponse,              \* the Response in progress
      trace    |-> <<>>,                    \* stages executed, in order
      vreq     |-> "",                      \* what the viewer-request handler did
      vreqUri  |-> "",                      \* path of the Request it returned
      oreq     |-> "",                      \* what the origin-request handler did
      oreqUri  |-> "",                      \* path of the Request it returned
      headersRef |-> "",                    \* request.origin.custom.customHeaders is
                                            \* the run's "own" object or the "shared"
                                            \* one of the configuration
      ownHeaders |-> {},                    \* the names in the run's own object
      atCache  |-> "",                      \* request.uri when onCache ran
      lookedUp |-> FALSE,                   \* retrieveFromCache was called
      hit      |-> FALSE,                   \* ... and found an entry
      found    |-> NoResponse,              \* the Response rebuilt from it
      foundSaved |-> NoResponse,            \* the Response that entry was saved from
      net      |-> "",                      \* what the upstream connection did
      netCode  |-> 0,                       \* status code the upstream sent
      upstream |-> NoUpstream,              \* options of the upstream request
      fetched  |-> NoResponse,              \* what Origin.retrieve returned
      fetchFailed |-> FALSE,                \* getResource threw or rejected
      oresp    |-> "",                      \* what the origin-response handler did
      orespOut |-> NoResponse,              \* what origin-response returned
      savedKey |-> "",                      \* key of the saveToCache call
      savedValue |-> NoResponse,            \* Response of the saveToCache call
      vrespIn  |-> NoResponse,              \* Response given to viewer-response
      vresp    |-> "",                      \* what the viewer-response handler did
      vrespOut |-> NoResponse,              \* what viewer-response returned
      returned |-> NoResponse,              \* what run returned
      error    |-> "",                      \* what run threw
      res      |-> NoAnswer,                \* the ServerResponse of the listener
      swallowed |-> "",                     \* the error the listener caught and dropped
      prior    |-> {} ]                     \* roundTrips when the run started

\* What a request handler (viewer-request, origin-request) does with the
\* event it is handed: it returns a terminal Response, or it throws, or it
\* returns a Request with path uri: the request of the event after writing
\* uri into event.Records[0].cf.request.uri, or (copy) a new Request object
\* while the event is left as it was.
RequestHandlerOutcomes ==
    { [kind |-> "response", uri |-> "", copy |-> FALSE],
      [kind |-> "error", uri |-> "", copy |-> FALSE] }
    \cup { [kind |-> "request", uri |-> u, copy |-> c] : u \in Uris, c \in BOOLEAN }

\* What a response handler (origin-response, viewer-response) does: it
\* returns the Response it was given, returns another one, or throws.
ResponseHandlerOutcomes == {"pass", "replace", "error"}

\* The origin-request handler is given request.origin as well: it may add
\* a header to request.origin.custom.customHeaders and return the request.
OriginRequestHandlerOutcomes ==
    RequestHandlerOutcomes \cup {[kind |-> "header", uri |-> "", copy |-> FALSE]}

\* The viewer-response handler may also return nothing: run then returns
\* no Response.
ViewerResponseHandlerOutcomes == ResponseHandlerOutcomes \cup {"void"}

Stage(s, name) == [s EXCEPT !.trace = Append(@, name)]

Fail(s, error) == [s EXCEPT !.pc = "failed", !.error = error]

\* onViewerRequest without the isResponseResult test: NoResult in every case.
OnViewerRequestIgnoringResponse(s, out) ==
    LET s1 == [Stage(s, "viewer-request") EXCEPT !.vreq = out.kind] IN
    CASE out.kind = "response" -> [s1 EXCEPT !.pc = "cache"]
      [] out.kind = "request" ->
            [s1 EXCEPT !.request.uri = IF out.copy THEN @ ELSE out.uri,
                       !.vreqUri = out.uri, !.pc = "cache"]
      [] OTHER -> Fail(s1, "HandlerError")

\* onViewerRequest, up to the call of onViewerResponse or the NoResult that
\* run catches.
OnViewerRequest(s, out) ==
    LET s1 == [Stage(s, "viewer-request") EXCEPT !.vreq = out.kind] IN
    CASE out.kind = "response" ->
            [s1 EXCEPT !.result = ViewerRequestResponse, !.pc = "viewer_response"]
      [] out.kind = "request" ->
            [s1 EXCEPT !.request.uri = IF out.copy THEN @ ELSE out.uri,
                       !.vreqUri = out.uri, !.pc = "cache"]
      [] OTHER -> Fail(s1, "HandlerError")

\* onCache handing a hit to the cache write of run.
OnCacheSavingHit(s, disabled, store) ==
    LET s1 == [Stage(s, "cache") EXCEPT !.atCache = s.request.uri] IN
    IF disabled THEN [s1 EXCEPT !.pc = "origin_request"]
    ELSE LET cached == RetrieveFromCache(store, s.request)
             s2 == [s1 EXCEPT !.lookedUp = TRUE]
         IN  IF ~cached.present THEN [s2 EXCEPT !.pc = "origin_request"]
             ELSE [s2 EXCEPT !.hit = TRUE, !.found = ToResultResponse(cached),
                             !.foundSaved = cached.saved,
                             !.result = ToResultResponse(cached),
                             !.pc = "save"]

\* onCache returning a hit without onViewerResponse.
OnCacheReturningHit(s, disabled, store) ==
    LET s1 == [Stage(s, "cache") EXCEPT !.atCache = s.request.uri] IN
    IF disabled THEN [s1 EXCEPT !.pc = "origin_request"]
    ELSE LET cached == RetrieveFromCache(store, s.request)
             s2 == [s1 EXCEPT !.lookedUp = TRUE]
         IN  IF ~cached.present THEN [s2 EXCEPT !.pc = "origin_request"]
             ELSE [s2 EXCEPT !.hit = TRUE, !.found = ToResultResponse(cached),
                             !.foundSaved = cached.saved,
                             !.result = ToResultResponse(cached),
                             !.returned = ToResultResponse(cached),
                             !.pc = "done"]

\* onCache without the disableCache test.
OnCacheAlwaysLookingUp(s, disabled, store) ==
    LET s1 == [Stage(s, "cache") EXCEPT !.atCache = s.request.uri]
        cached == RetrieveFromCache(store, s.request)
        s2 == [s1 EXCEPT !.lookedUp = TRUE]
    IN  IF ~cached.present THEN [s2 EXCEPT !.pc = "origin_request"]
        ELSE [s2 EXCEPT !.hit = TRUE, !.found = ToResultResponse(cached),
                             !.foundSaved = cached.saved,
                        !.result = ToResultResponse(cached),
                        !.pc = "viewer_response"]

\* onCache, up to the call of onViewerResponse or the NoResult that run
\* catches.
OnCache(s, disabled, store) ==
    LET s1 == [Stage(s, "cache") EXCEPT !.atCache = s.request.uri] IN
    IF disabled THEN [s1 EXCEPT !.pc = "origin_request"]
    ELSE LET cached == RetrieveFromCache(store, s.request)
             s2 == [s1 EXCEPT !.lookedUp = TRUE]
         IN  IF ~cached.present THEN [s2 EXCEPT !.pc = "origin_request"]
             ELSE [s2 EXCEPT !.hit = TRUE, !.found = ToResultResponse(cached),
                             !.foundSaved = cached.saved,
                             !.result = ToResultResponse(cached),
                             !.pc = "viewer_response"]

\* The custom origin parameters onOriginRequest writes into request.origin.
\* request.uri is a path: url.parse finds no hostname, port or protocol in
\* it.  The spread of fnSet.origin.customOrigin overrides the defaults with
\* every key the constructor has set.
SynthesizeCustom(customOrigin) ==
    LET proto == "http" IN
    [ present    |-> TRUE,
      domainName |-> customOrigin.domainName,
      port       |-> customOrigin.port,
      protocol   |-> IF customOrigin.protocol = "" THEN proto
                     ELSE customOrigin.protocol ]

\* The customHeaders object of the parameters onOriginRequest builds: the
\* spread copies the keys of fnSet.origin.customOrigin, not the objects
\* they hold, so a configured customHeaders object is shared with the
\* configuration; the default {} is the run's own.
SynthesizeHeaders(shared) == IF shared.configured THEN "shared" ELSE "own"

\* The configuration's customHeaders object after the origin-request
\* handler of a run has done out.
WriteHeaders(shared, s, out, o) ==
    IF out.kind = "header" /\ o.customOrigin.present /\ shared.configured
    THEN Headers(shared.names \cup {HeaderFor(s.uri0)})
    ELSE shared

\* custom.customHeaders as getHttpResource reads it.
CustomHeaders(s, shared) ==
    IF ~s.request.origin.present THEN {}
    ELSE IF s.headersRef = "shared" THEN shared.names
    ELSE s.ownHeaders

\* onOriginRequest with run returning the terminal Response at once.
OnOriginRequestReturning(s, out, o, shared) ==
    LET s1 == [Stage(s, "origin-request") EXCEPT
                  !.oreq = out.kind,
                  !.request.origin = IF o.customOrigin.present
                                     THEN SynthesizeCustom(o.customOrigin) ELSE @,
                  !.headersRef = IF o.customOrigin.present
                                 THEN SynthesizeHeaders(shared) ELSE @]
    IN  CASE out.kind = "response" ->
                [s1 EXCEPT !.result = OriginRequestResponse,
                           !.returned = OriginRequestResponse, !.pc = "done"]
          [] out.kind = "request" ->
                [s1 EXCEPT !.request.uri = IF out.copy THEN @ ELSE out.uri,
                           !.oreqUri = out.uri, !.pc = "origin_fetch"]
          [] out.kind = "header" /\ s1.request.origin.present ->
                [s1 EXCEPT !.oreq = "request",
                           !.oreqUri = s.request.uri,
                           !.ownHeaders = IF s1.headersRef = "own"
                                          THEN @ \cup {HeaderFor(s.uri0)} ELSE @,
                           !.pc = "origin_fetch"]
          [] OTHER -> Fail([s1 EXCEPT !.oreq = "error"], "HandlerError")

\* onOriginRequest, up to the call of onOrigin or the return of a terminal
\* Response to run.
OnOriginRequest(s, out, o, shared) ==
    LET s1 == [Stage(s, "origin-request") EXCEPT
                  !.oreq = out.kind,
                  !.request.origin = IF o.customOrigin.present
                                     THEN SynthesizeCustom(o.customOrigin) ELSE @,
                  !.headersRef = IF o.customOrigin.present
                                 THEN SynthesizeHeaders(shared) ELSE @]
    IN  CASE out.kind = "response" ->
                [s1 EXCEPT !.result = OriginRequestResponse, !.pc = "save"]
          [] out.kind = "request" ->
                [s1 EXCEPT !.request.uri = IF out.copy THEN @ ELSE out.uri,
                           !.oreqUri = out.uri, !.pc = "origin_fetch"]
          [] out.kind = "header" /\ s1.request.origin.present ->
                [s1 EXCEPT !.oreq = "request",
                           !.oreqUri = s.request.uri,
                           !.ownHeaders = IF s1.headersRef = "own"
                                          THEN @ \cup {HeaderFor(s.uri0)} ELSE @,
                           !.pc = "origin_fetch"]
          [] OTHER -> Fail([s1 EXCEPT !.oreq = "error"], "HandlerError")

\* onOrigin once Origin.retrieve has settled.
OnRetrieved(s, settled) ==
    IF settled.kind = "throw" THEN Fail(s, settled.error)
    ELSE [s EXCEPT !.fetched = settled.response, !.result = settled.response,
                   !.pc = "origin_response"]

\* onOrigin: Origin.retrieve is called.  A file or noop origin settles
\* here; an http/https origin sends its upstream request.
OnOrigin(s, o, boom, shared) ==
    LET s1 == Stage(s, "origin-fetch") IN
    IF o.type \in {"http", "https"}
    THEN [s1 EXCEPT !.upstream = [Upstream(o, s.request) EXCEPT
                                     !.customHeaders = CustomHeaders(s, shared)],
                    !.pc = "fetching"]
    ELSE LET resource == GetResource(o, s.request) IN
         OnRetrieved([s1 EXCEPT !.fetchFailed = resource.kind = "error"],
                     Retrieve(resource, boom))

\* onOriginResponse going on with the Response it was given when the
\* handler throws.
OnOriginResponseSwallowing(s, out) ==
    LET s1 == [Stage(s, "origin-response") EXCEPT !.oresp = out] IN
    CASE out = "replace" -> [s1 EXCEPT !.orespOut = OriginResponseResponse,
                                       !.result = OriginResponseResponse,
                                       !.pc = "save"]
      [] OTHER           -> [s1 EXCEPT !.orespOut = s.result, !.pc = "save"]

\* onOriginResponse
OnOriginResponse(s, out) ==
    LET s1 == [Stage(s, "origin-response") EXCEPT !.oresp = out] IN
    CASE out = "pass"    -> [s1 EXCEPT !.orespOut = s.result, !.pc = "save"]
      [] out = "replace" -> [s1 EXCEPT !.orespOut = OriginResponseResponse,
                                       !.result = OriginResponseResponse,
                                       !.pc = "save"]
      [] OTHER           -> Fail(s1, "HandlerError")

\* run saving the result without deleting request.origin.
OnSaveKeepingOrigin(s) ==
    [Stage(s, "cache-write") EXCEPT
        !.savedKey = CacheKey(s.request),
        !.savedValue = s.result,
        !.pc = "viewer_response"]

\* run saving what the origin fetch returned when there was a fetch.
OnSaveFetched(s) ==
    [Stage(s, "cache-write") EXCEPT
        !.request.origin = NoCustom,
        !.headersRef = "",
        !.ownHeaders = {},
        !.savedKey = CacheKey(s.request),
        !.savedValue = IF s.fetched # NoResponse THEN s.fetched ELSE s.result,
        !.pc = "viewer_response"]

\* run, after onOriginRequest has returned: request.origin is deleted and
\* the result is saved.
OnSave(s) ==
    [Stage(s, "cache-write") EXCEPT
        !.request.origin = NoCustom,
        !.headersRef = "",
        !.ownHeaders = {},
        !.savedKey = CacheKey(s.request),
        !.savedValue = s.result,
        !.pc = "viewer_response"]

\* onViewerResponse: what the handler returns is what run returns.
OnViewerResponse(s, out) ==
    LET s1 == [Stage(s, "viewer-response") EXCEPT !.vrespIn = s.result,
                                                  !.vresp = out] IN
    CASE out = "pass"    -> [s1 EXCEPT !.vrespOut = s.result, !.returned = s.result,
                                       !.pc = "done"]
      [] out = "replace" -> [s1 EXCEPT !.vrespOut = ViewerResponseResponse,
                                       !.returned = ViewerResponseResponse,
                                       !.pc = "done"]
      [] out = "void"    -> [s1 EXCEPT !.pc = "done"]
      [] OTHER           -> Fail(s1, "HandlerError")

\* retrieveFromCache throws: onCache and run rethrow the error.
OnCacheError(s) ==
    Fail([Stage(s, "cache") EXCEPT !.atCache = s.request.uri, !.lookedUp = TRUE],
         "CacheError")

\* saveToCache rejects: run rethrows the error before onViewerResponse.
OnSaveError(s) ==
    Fail([Stage(s, "cache-write") EXCEPT !.request.origin = NoCustom,
                                         !.headersRef = "",
                                         !.ownHeaders = {},
                                         !.savedKey = CacheKey(s.request),
                                         !.savedValue = s.result],
         "CacheError")

\* Status codes of the Responses of the model, as parseInt reads them.
KnownStatusCodes == UpstreamStatuses \cup {0, 302, 403, 404, 500}

\* parseInt(response.status, 10); -1 stands for NaN.
ParseInt(status) ==
    IF \E n \in KnownStatusCodes : ToString(n) = status
    THEN CHOOSE n \in KnownStatusCodes : ToString(n) = status
    ELSE -1

\* The status codes ServerResponse.end accepts when it writes the head; it
\* throws a RangeError for any other.
HttpStatusCodes == 100..999

\* Boom.internal()
BoomInternal ==
    [statusCode |-> 500, error |-> "Internal Server Error",
     message |-> "Internal Server Error"]

\* handleError
HandleError(err) == Answer(err.statusCode, err.error, err.message)

\* isBoom(err), for the errors run throws: handler errors, the TypeError of
\* Origin.retrieve and cache errors are not Boom errors.
IsBoom(error) == FALSE

\* The listener once run has settled: the Response is written to the
\* ServerResponse, Boom errors go to handleError, any other error is
\* caught and dropped.
EndResponse(s) ==
    IF s.pc = "failed"
    THEN IF IsBoom(s.error)
         THEN [s EXCEPT !.res = HandleError(BoomInternal), !.pc = "answered"]
         ELSE [s EXCEPT !.swallowed = s.error, !.pc = "unanswered"]
    ELSE IF s.returned = NoResponse
         THEN [s EXCEPT !.res = HandleError(BoomInternal), !.pc = "answered"]
         ELSE LET code == ParseInt(s.returned.status) IN
              IF code \in HttpStatusCodes
              THEN [s EXCEPT !.res = Answer(code, s.returned.statusDescription,
                                            s.returned.body),
                             !.pc = "answered"]
              ELSE [s EXCEPT !.swallowed = "RangeError", !.pc = "unanswered"]

\* The stages of a full origin round trip, as they appear in a trace.
Has(s, name) == \E i \in 1..Len(s.trace) : s.trace[i] = name

FullRoundTrip(s) ==
    Has(s, "origin-request") /\ Has(s, "origin-fetch") /\ Has(s, "origin-response")

-----------------------------------------------------------------------------
(* Actions of the lifecycle.                                               *)

\* The listener creates a lifecycle for an inbound request and calls run.
StartRun(r, uri) ==
    /\ run[r].pc = "idle"
    /\ run' = [run EXCEPT ![r] = [IdleRun EXCEPT !.pc = "viewer_request",
                                                 !.uri0 = uri,
                                                 !.request.uri = uri,
                                                 !.prior = roundTrips]]
    /\ UNCHANGED <<origin, disableCache, boomNotFound, cache, roundTrips, purged, configHeaders>>
    /\ UNCHANGED routerVars

ViewerRequest(r) ==
    /\ run[r].pc = "viewer_request"
    /\ \E out \in RequestHandlerOutcomes :
          run' = [run EXCEPT ![r] = OnViewerRequest(run[r], out)]
    /\ UNCHANGED <<origin, disableCache, boomNotFound, cache, roundTrips, purged, configHeaders>>
    /\ UNCHANGED routerVars

CacheCheck(r) ==
    /\ run[r].pc = "cache"
    /\ run' = [run EXCEPT ![r] = OnCache(run[r], disableCache, cache)]
    /\ UNCHANGED <<origin, disableCache, boomNotFound, cache, roundTrips, purged, configHeaders>>
    /\ UNCHANGED routerVars

\* The store fails while retrieveFromCache reads it.
CacheReadError(r) ==
    /\ run[r].pc = "cache"
    /\ ~disableCache
    /\ run' = [run EXCEPT ![r] = OnCacheError(run[r])]
    /\ UNCHANGED <<origin, disableCache, boomNotFound, cache, roundTrips, purged, configHeaders>>
    /\ UNCHANGED routerVars

OriginRequest(r) ==
    /\ run[r].pc = "origin_request"
    /\ \E out \in OriginRequestHandlerOutcomes :
          /\ run' = [run EXCEPT ![r] =
                       OnOriginRequest(run[r], out, origin, configHeaders)]
          /\ configHeaders' = WriteHeaders(configHeaders, run[r], out, origin)
    /\ UNCHANGED <<origin, disableCache, boomNotFound, cache, roundTrips, purged>>
    /\ UNCHANGED routerVars

OriginFetch(r) ==
    /\ run[r].pc = "origin_fetch"
    /\ run' = [run EXCEPT ![r] =
                 OnOrigin(run[r], origin, boomNotFound, configHeaders)]
    /\ UNCHANGED <<origin, disableCache, boomNotFound, cache, roundTrips, purged, configHeaders>>
    /\ UNCHANGED routerVars

\* The upstream answers and the incoming message closes: the promise of
\* getHttpResource resolves with the status code and the buffered body.
UpstreamReply(r) ==
    /\ run[r].pc = "fetching"
    /\ \E code \in UpstreamStatuses :
          run' = [run EXCEPT ![r] =
                    OnRetrieved([run[r] EXCEPT !.net = "reply", !.netCode = code],
                                Retrieve(Resource(TRUE, code, "upstream body"),
                                         boomNotFound))]
    /\ UNCHANGED <<origin, disableCache, boomNotFound, cache, roundTrips, purged, configHeaders>>
    /\ UNCHANGED routerVars

\* The incoming message emits 'error': the promise is rejected.
ResponseError(r) ==
    /\ run[r].pc = "fetching"
    /\ run' = [run EXCEPT ![r] =
                 OnRetrieved([run[r] EXCEPT !.net = "res_error", !.fetchFailed = TRUE],
                             Retrieve(Rejection("aborted"), boomNotFound))]
    /\ UNCHANGED <<origin, disableCache, boomNotFound, cache, roundTrips, purged, configHeaders>>
    /\ UNCHANGED routerVars

\* The outgoing request emits 'error' (connection refused, host not
\* found, reset).  getHttpResource registers no listener for it: the event
\* is raised as an uncaught exception and the promise is never settled.
RequestError(r) ==
    /\ run[r].pc = "fetching"
    /\ run' = [run EXCEPT ![r] = [@ EXCEPT !.net = "req_error", !.fetchFailed = TRUE,
                                            !.pc = "hung"]]
    /\ UNCHANGED <<origin, disableCache, boomNotFound, cache, roundTrips, purged, configHeaders>>
    /\ UNCHANGED routerVars

OriginResponse(r) ==
    /\ run[r].pc = "origin_response"
    /\ \E out \in ResponseHandlerOutcomes :
          run' = [run EXCEPT ![r] = OnOriginResponse(run[r], out)]
    /\ UNCHANGED <<origin, disableCache, boomNotFound, cache, roundTrips, purged, configHeaders>>
    /\ UNCHANGED routerVars

Save(r) ==
    /\ run[r].pc = "save"
    /\ LET s == OnSave(run[r]) IN
        /\ run' = [run EXCEPT ![r] = s]
        /\ cache' = SaveToCache(cache, s.request, s.savedValue)
        /\ roundTrips' = IF FullRoundTrip(s)
                         THEN roundTrips \cup {[uri0 |-> s.uri0, atCache |-> s.atCache]}
                         ELSE roundTrips
        /\ purged' = {}
    /\ UNCHANGED <<origin, disableCache, boomNotFound, configHeaders>>
    /\ UNCHANGED routerVars

\* The store fails while saveToCache writes: no entry is written.
CacheWriteError(r) ==
    /\ run[r].pc = "save"
    /\ run' = [run EXCEPT ![r] = OnSaveError(run[r])]
    /\ UNCHANGED <<origin, disableCache, boomNotFound, cache, roundTrips, purged, configHeaders>>
    /\ UNCHANGED routerVars

ViewerResponse(r) ==
    /\ run[r].pc = "viewer_response"
    /\ \E out \in ViewerResponseHandlerOutcomes :
          run' = [run EXCEPT ![r] = OnViewerResponse(run[r], out)]
    /\ UNCHANGED <<origin, disableCache, boomNotFound, cache, roundTrips, purged, configHeaders>>
    /\ UNCHANGED routerVars

\* run has settled: the listener ends the response, or drops the error.
Respond(r) ==
    /\ run[r].pc \in {"done", "failed"}
    /\ run' = [run EXCEPT ![r] = EndResponse(run[r])]
    /\ UNCHANGED <<origin, disableCache, boomNotFound, cache, roundTrips, purged, configHeaders>>
    /\ UNCHANGED routerVars

\* The middleware of the listener has returned: the lifecycle instance is
\* dropped.
Finish(r) ==
    /\ run[r].pc \in {"answered", "unanswered"}
    /\ run' = [run EXCEPT ![r] = IdleRun]
    /\ UNCHANGED <<origin, disableCache, boomNotFound, cache, roundTrips, purged, configHeaders>>
    /\ UNCHANGED routerVars

\* A PURGE request: purgeStorage clears the store and the listener answers
\* 200 without creating a lifecycle.
Purge ==
    /\ cache' = PurgeStore(cache)
    /\ purged' = purged \cup {k \in DOMAIN cache : cache[k].present}
    /\ roundTrips' = {}
    /\ run' = [r \in DOMAIN run |-> [run[r] EXCEPT !.prior = {}]]
    /\ UNCHANGED <<origin, disableCache, boomNotFound, configHeaders>>
    /\ UNCHANGED routerVars

-----------------------------------------------------------------------------
(* BehaviorRouter: the registry of FunctionSets and match.                 *)

\* Longest list of functions the service declares.
MaxFunctions == 3

\* Path patterns and request paths, as sequences of characters.
PatStar == <<"*">>
PatApi  == <<"/", "a", "p", "i", "/", "*">>
PatImg  == <<"/", "i", "m", "g", "/", "*">>
NoPattern == <<>>

PathApiX  == <<"/", "a", "p", "i", "/", "x">>
PathApi   == <<"/", "a", "p", "i">>
PathImgX  == <<"/", "i", "m", "g", "/", "x">>
PathOther == <<"/", "o", "t", "h", "e", "r">>
NoUrl == <<>>

\* req.url: a path and a query string ('' when the URL has none).
Url(path, query) == [path |-> path, query |-> query]

RequestUrls ==
    { Url(p, q) : p \in {PathApiX, PathApi, PathImgX, PathOther}, q \in {"", "?v=1"} }
    \cup { Url(NoUrl, "") }

\* new URL(req.url, 'http://localhost').pathname: the URL without its query.
Pathname(url) == url.path

\* handler.regex.test(pathname), the pattern read as a glob: "*" stands for
\* any run of characters, every other character for itself, and the whole
\* path has to match.
RECURSIVE GlobTest(_, _)
GlobTest(pattern, path) ==
    IF pattern = <<>> THEN path = <<>>
    ELSE IF Head(pattern) = "*"
         THEN \/ GlobTest(Tail(pattern), path)
              \/ path # <<>> /\ GlobTest(pattern, Tail(path))
         ELSE /\ path # <<>>
              /\ Head(path) = Head(pattern)
              /\ GlobTest(Tail(pattern), Tail(path))

EventTypes == {"viewer-request", "origin-request", "origin-response", "viewer-response"}

\* lambdaAtEdge of a function, or the cloudFront options of its first
\* cloudFront event; present = FALSE when the function has none.
EdgeOptions(pathPattern, eventType) ==
    [present |-> TRUE, pathPattern |-> pathPattern, eventType |-> eventType]

NoEdgeOptions == [present |-> FALSE, pathPattern |-> NoPattern, eventType |-> ""]

FunctionDef(handler, lambdaAtEdge, cloudFront) ==
    [handler |-> handler, lambdaAtEdge |-> lambdaAtEdge, cloudFront |-> cloudFront]

FunctionDefs ==
    { FunctionDef("api.viewer", EdgeOptions(PatApi, "viewer-request"), NoEdgeOptions),
      FunctionDef("api.origin", EdgeOptions(PatApi, "origin-request"), NoEdgeOptions),
      FunctionDef("all.viewer", NoEdgeOptions, EdgeOptions(PatStar, "viewer-response")),
      FunctionDef("bare.origin", NoEdgeOptions, EdgeOptions(NoPattern, "origin-response")),
      FunctionDef("img.viewer", EdgeOptions(NoPattern, "viewer-request"),
                                EdgeOptions(PatImg, "viewer-response")),
      FunctionDef("plain", NoEdgeOptions, NoEdgeOptions) }

RECURSIVE SeqsUpTo(_, _)
SeqsUpTo(S, n) ==
    IF n = 0 THEN {<<>>}
    ELSE LET shorter == SeqsUpTo(S, n - 1) IN
         shorter \cup { Append(q, x) : q \in shorter, x \in S }

\* custom.offlineEdgeLambda.originMap
OriginMapping(pathPattern, target, customOriginConfig) ==
    [pathPattern |-> pathPattern, target |-> target,
     customOriginConfig |-> customOriginConfig]

OriginMaps ==
    { <<>>,
      << OriginMapping(PatApi, Target("http", "origin.test", 0, ""), NoCustom) >>,
      << OriginMapping(PatStar, Target("", "", 0, "/srv/www"), NoCustom),
         OriginMapping(PatApi, Target("http", "origin.test", 0, ""), NoCustom),
         OriginMapping(PatApi, Target("https", "origin.test", 8443, ""),
                       Custom("alt.test", "", 0)) >> }

\* configureOrigins, then origins.get(pattern): a later mapping of a
\* pattern replaces an earlier one; found = FALSE is undefined.
RECURSIVE OriginsGet(_, _)
OriginsGet(mappings, pattern) ==
    IF mappings = <<>> THEN [found |-> FALSE, origin |-> Origin(EmptyTarget, NoCustom)]
    ELSE LET last == mappings[Len(mappings)] IN
         IF last.pathPattern = pattern
         THEN [found |-> TRUE, origin |-> Origin(last.target, last.customOriginConfig)]
         ELSE OriginsGet(SubSeq(mappings, 1, Len(mappings) - 1), pattern)

NoHandlers == [e \in EventTypes |-> ""]

\* new FunctionSet(pattern, log, origin): no handlers, and an Origin without
\* target when the pattern has no origin mapping.
NewFunctionSet(pattern, mapped) ==
    [ pattern  |-> pattern,
      handlers |-> NoHandlers,
      origin   |-> IF mapped.found THEN mapped.origin ELSE Origin(EmptyTarget, NoCustom) ]

\* path.join(this.path, def.handler)
PathJoin(base, handler) == IF base = "" THEN handler ELSE base \o "/" \o handler

\* behaviors.has(pattern), and the place of the pattern in the Map.
IndexOf(fnSets, pattern) ==
    IF \E i \in 1..Len(fnSets) : fnSets[i].pattern = pattern
    THEN CHOOSE i \in 1..Len(fnSets) : fnSets[i].pattern = pattern
    ELSE 0

\* behaviors.set(pattern, fnSet) for a pattern the Map does not hold: the
\* Map keeps its keys in insertion order.
MapSet(fnSets, fnSet) == Append(fnSets, fnSet)

\* fnSet.setHandler(eventType, path)
SetHandler(fnSet, eventType, path) ==
    IF eventType \in EventTypes
    THEN [fnSet EXCEPT !.handlers[eventType] = path]
    ELSE fnSet

\* The loop body setting a new FunctionSet for the pattern at every function.
AddFunctionReplacing(fnSets, def, mappings, base) ==
    LET customDef == def.lambdaAtEdge
        nativeDef == IF def.cloudFront.present THEN def.cloudFront
                     ELSE [present |-> FALSE, pathPattern |-> NoPattern, eventType |-> ""]
        pattern   == IF customDef.present /\ customDef.pathPattern # NoPattern
                     THEN customDef.pathPattern
                     ELSE IF nativeDef.pathPattern # NoPattern THEN nativeDef.pathPattern
                     ELSE PatStar
        fresh     == NewFunctionSet(pattern, OriginsGet(mappings, pattern))
        withSet   == IF IndexOf(fnSets, pattern) = 0
                     THEN MapSet(fnSets, fresh)
                     ELSE [fnSets EXCEPT ![IndexOf(fnSets, pattern)] = fresh]
        eventType == IF customDef.present /\ customDef.eventType # ""
                     THEN customDef.eventType ELSE nativeDef.eventType
        i         == IndexOf(withSet, pattern)
    IN  IF eventType # ""
        THEN [withSet EXCEPT ![i] = SetHandler(@, eventType, PathJoin(base, def.handler))]
        ELSE withSet

\* The body of the loop of extractBehaviors, for one function.
AddFunction(fnSets, def, mappings, base) ==
    LET customDef == def.lambdaAtEdge
        nativeDef == IF def.cloudFront.present THEN def.cloudFront
                     ELSE [present |-> FALSE, pathPattern |-> NoPattern, eventType |-> ""]
        pattern   == IF customDef.present /\ customDef.pathPattern # NoPattern
                     THEN customDef.pathPattern
                     ELSE IF nativeDef.pathPattern # NoPattern THEN nativeDef.pathPattern
                     ELSE PatStar
        withSet   == IF IndexOf(fnSets, pattern) = 0
                     THEN MapSet(fnSets, NewFunctionSet(pattern, OriginsGet(mappings, pattern)))
                     ELSE fnSets
        eventType == IF customDef.present /\ customDef.eventType # ""
                     THEN customDef.eventType ELSE nativeDef.eventType
        i         == IndexOf(withSet, pattern)
    IN  IF eventType # ""
        THEN [withSet EXCEPT ![i] = SetHandler(@, eventType, PathJoin(base, def.handler))]
        ELSE withSet

RECURSIVE AddFunctions(_, _, _, _)
AddFunctions(fnSets, defs, mappings, base) ==
    IF defs = <<>> THEN fnSets
    ELSE AddFunctions(AddFunction(fnSets, Head(defs), mappings, base),
                      Tail(defs), mappings, base)

\* The functions extractBehaviors keeps: those with lambdaAtEdge or with a
\* cloudFront event.
LambdaDefs(defs) ==
    SelectSeq(defs, LAMBDA def : def.lambdaAtEdge.present \/ def.cloudFront.present)

\* extractBehaviors: the Map is cleared, filled from the functions, and
\* given a "*" FunctionSet when it has none.
ExtractBehaviors(defs, mappings, base) ==
    LET filled == AddFunctions(<<>>, LambdaDefs(defs), mappings, base) IN
    IF IndexOf(filled, PatStar) = 0
    THEN MapSet(filled, NewFunctionSet(PatStar, OriginsGet(mappings, PatStar)))
    ELSE filled

\* What match returns: a FunctionSet, or null.
Null == [isNull |-> TRUE, pattern |-> NoPattern]
Matched(fnSet) == [isNull |-> FALSE, pattern |-> fnSet.pattern]

\* The loop of match keeping the last FunctionSet whose regex matches.
LastMatch(fnSets, pathname) ==
    IF \E i \in 1..Len(fnSets) : GlobTest(fnSets[i].pattern, pathname)
    THEN CHOOSE i \in 1..Len(fnSets) :
            /\ GlobTest(fnSets[i].pattern, pathname)
            /\ \A j \in (i + 1)..Len(fnSets) : ~GlobTest(fnSets[j].pattern, pathname)
    ELSE 0

\* The first FunctionSet, in the order of the Map, whose regex matches.
FirstMatch(fnSets, pathname) ==
    IF \E i \in 1..Len(fnSets) : GlobTest(fnSets[i].pattern, pathname)
    THEN CHOOSE i \in 1..Len(fnSets) :
            /\ GlobTest(fnSets[i].pattern, pathname)
            /\ \A j \in 1..(i - 1) : ~GlobTest(fnSets[j].pattern, pathname)
    ELSE 0

\* match(req)
Match(fnSets, url) ==
    IF url.path = NoUrl THEN Null
    ELSE LET first == FirstMatch(fnSets, Pathname(url))
             star  == IndexOf(fnSets, PatStar)
         IN  IF first # 0 THEN Matched(fnSets[first])
             ELSE IF star # 0 THEN Matched(fnSets[star])
             ELSE Null

\* listen: the behaviors are extracted before the server is created.
Listen ==
    /\ ~built
    /\ behaviors' = ExtractBehaviors(functions, originMap, handlerRoot)
    /\ built' = TRUE
    /\ UNCHANGED <<functions, originMap, handlerRoot, matchUrl, matchBuilt, matched>>
    /\ UNCHANGED lifecycleVars

\* match is called with a request.
MatchRequest(url) ==
    /\ matchUrl' = url
    /\ matchBuilt' = built
    /\ matched' = Match(behaviors, url)
    /\ UNCHANGED <<functions, originMap, handlerRoot, behaviors, built>>
    /\ UNCHANGED lifecycleVars

RouterIdle ==
    /\ functions = <<>>
    /\ originMap = <<>>
    /\ handlerRoot = ""
    /\ behaviors = <<>>
    /\ built = FALSE
    /\ matchUrl = Url(NoUrl, "")
    /\ matchBuilt = FALSE
    /\ matched = Null

Init ==
    /\ origin \in OriginConfigs
    /\ disableCache \in BOOLEAN
    /\ boomNotFound \in {"function", "method"}
    /\ cache = EmptyCache
    /\ run = [r \in Slots |-> IdleRun]
    /\ roundTrips = {}
    /\ purged = {}
    /\ configHeaders = NoHeaders
    /\ RouterIdle

Next ==
    \/ \E r \in Slots, uri \in Uris : StartRun(r, uri)
    \/ \E r \in Slots : ViewerRequest(r)
    \/ \E r \in Slots : CacheCheck(r)
    \/ \E r \in Slots : CacheReadError(r)
    \/ \E r \in Slots : OriginRequest(r)
    \/ \E r \in Slots : OriginFetch(r)
    \/ \E r \in Slots : RequestError(r)
    \/ \E r \in Slots : UpstreamReply(r)
    \/ \E r \in Slots : ResponseError(r)
    \/ \E r \in Slots : OriginResponse(r)
    \/ \E r \in Slots : Save(r)
    \/ \E r \in Slots : CacheWriteError(r)
    \/ \E r \in Slots : ViewerResponse(r)
    \/ \E r \in Slots : Respond(r)
    \/ \E r \in Slots : Finish(r)
    \/ Purge

vars == <<lifecycleVars, routerVars>>

Spec == Init /\ [][Next]_vars

\* Two calls of run in flight at once for one FunctionSet with a custom
\* origin and the cache disabled: every slot serves one request, up to the
\* point where run settles.
ConcurrentInit ==
    /\ origin = ConcurrentOrigin
    /\ configHeaders = Headers({"x-config"})
    /\ disableCache = TRUE
    /\ boomNotFound = "function"
    /\ cache = EmptyCache
    /\ run = [r \in ConcurrentSlots |-> IdleRun]
    /\ roundTrips = {}
    /\ purged = {}
    /\ RouterIdle

ConcurrentNext ==
    \/ \E r \in ConcurrentSlots, uri \in Uris : StartRun(r, uri)
    \/ \E r \in ConcurrentSlots : ViewerRequest(r)
    \/ \E r \in ConcurrentSlots : CacheCheck(r)
    \/ \E r \in ConcurrentSlots : OriginRequest(r)
    \/ \E r \in ConcurrentSlots : OriginFetch(r)
    \/ \E r \in ConcurrentSlots : UpstreamReply(r)
    \/ \E r \in ConcurrentSlots : OriginResponse(r)
    \/ \E r \in ConcurrentSlots : Save(r)
    \/ \E r \in ConcurrentSlots : ViewerResponse(r)

ConcurrentSpec == ConcurrentInit /\ [][ConcurrentNext]_vars

\* The router on its own: a service configuration, listen, and match.
RouterInit ==
    /\ functions \in SeqsUpTo(FunctionDefs, MaxFunctions)
    /\ originMap \in OriginMaps
    /\ handlerRoot \in {"", "edge"}
    /\ behaviors = <<>>
    /\ built = FALSE
    /\ matchUrl = Url(NoUrl, "")
    /\ matchBuilt = FALSE
    /\ matched = Null
    /\ origin = Origin(EmptyTarget, NoCustom)
    /\ disableCache = FALSE
    /\ boomNotFound = "function"
    /\ cache = EmptyCache
    /\ run = [r \in Slots |-> IdleRun]
    /\ roundTrips = {}
    /\ purged = {}
    /\ configHeaders = NoHeaders

RouterNext ==
    \/ Listen
    \/ \E url \in RequestUrls : MatchRequest(url)

RouterSpec == RouterInit /\ [][RouterNext]_vars

-----------------------------------------------------------------------------
(* Properties of the lifecycle.                                            *)

\* The place of a stage in the order of the lifecycle.
Rank(name) ==
    CASE name = "viewer-request"  -> 1
      [] name = "cache"           -> 2
      [] name = "origin-request"  -> 3
      [] name = "origin-fetch"    -> 4
      [] name = "origin-response" -> 5
      [] name = "cache-write"     -> 6
      [] name = "viewer-response" -> 7

Count(s, name) == Cardinality({i \in 1..Len(s.trace) : s.trace[i] = name})

\* C1: a run whose viewer-request handler returned a terminal Response never
\* runs onCache or retrieveFromCache, the origin-request handler, the origin
\* fetch, the origin-response handler or saveToCache, and what it returns is
\* the output of the viewer-response handler given that Response.
C1_ViewerRequestShortCircuit ==
    \A r \in Slots :
        run[r].vreq = "response" =>
            /\ ~run[r].lookedUp
            /\ ~Has(run[r], "cache")
            /\ ~Has(run[r], "origin-request")
            /\ ~Has(run[r], "origin-fetch")
            /\ ~Has(run[r], "origin-response")
            /\ ~Has(run[r], "cache-write")
            /\ run[r].savedKey = ""
            /\ Has(run[r], "viewer-response") => run[r].vrespIn = ViewerRequestResponse
            /\ run[r].pc = "done" =>
                  /\ run[r].trace = <<"viewer-request", "viewer-response">>
                  /\ run[r].returned = run[r].vrespOut

C1_Witness ==
    \E r \in Slots :
        /\ run[r].vreq = "response"
        /\ run[r].pc = "done"
        /\ run[r].returned = ViewerResponseResponse

\* C2: with caching enabled and no purge in between, a run for a request
\* for which an earlier run completed a full origin round trip (same path,
\* same path after viewer-request) gets a cache hit and calls neither the
\* origin-request handler nor the origin fetch.
C2_RepeatedRequestHitsCache ==
    \A r \in Slots :
        ( /\ ~disableCache
          /\ Has(run[r], "cache")
          /\ run[r].error # "CacheError"
          /\ [uri0 |-> run[r].uri0, atCache |-> run[r].atCache] \in run[r].prior )
        => /\ run[r].hit
           /\ ~Has(run[r], "origin-request")
           /\ ~Has(run[r], "origin-fetch")

PathResponse(s) ==
    IF s.vreq = "response" THEN ViewerRequestResponse
    ELSE IF s.hit THEN s.found
    ELSE s.orespOut

\* C5: the stages of a run execute at most once each and in the order
\* viewer-request, cache check, origin-request, origin fetch,
\* origin-response, viewer-response; a run that ended by a viewer-request
\* short-circuit, a cache hit or a full origin round trip has invoked the
\* viewer-response handler exactly once, on the Response of that path.
C5_StagesOnceInOrder ==
    \A r \in Slots :
        /\ \A i, j \in 1..Len(run[r].trace) :
              i < j => Rank(run[r].trace[i]) < Rank(run[r].trace[j])
        /\ (run[r].pc = "done" /\ run[r].oreq # "response") =>
              /\ Count(run[r], "viewer-response") = 1
              /\ run[r].vrespIn = PathResponse(run[r])
              /\ run[r].vrespIn # NoResponse
              /\ \/ run[r].vreq = "response"
                 \/ run[r].hit
                 \/ FullRoundTrip(run[r])

C5_Witness ==
    \E r \in Slots :
        /\ run[r].pc = "done"
        /\ run[r].hit
        /\ run[r].trace = <<"viewer-request", "cache", "viewer-response">>

\* C6: an Origin without target answers every fetch with a 404 Response and
\* the run does not fail in the fetch.
C6_NoopOriginYields404 ==
    \A r \in Slots :
        (origin.type = "noop" /\ Has(run[r], "origin-fetch")) =>
            /\ run[r].error # "TypeError"
            /\ run[r].fetched.status = "404"

\* C7: every fetch of an http/https Origin settles inside Origin.retrieve:
\* an upstream reply gives a Response with the status of the reply, an
\* error of the outgoing request or of the incoming message a 500 Response
\* with the description of the failure.
C7_HttpFetchSettles ==
    \A r \in Slots :
        (origin.type \in {"http", "https"} /\ run[r].net # "") =>
            /\ run[r].pc # "hung"
            /\ run[r].error # "TypeError"
            /\ run[r].net = "reply" =>
                  run[r].fetched.status = ToString(run[r].netCode)
            /\ run[r].net \in {"res_error", "req_error"} =>
                  /\ run[r].fetched.status = "500"
                  /\ run[r].fetched.statusDescription # ""

SuccessStatuses == {"200", "201", "202", "203", "204", "205", "206"}

\* C8: a file Origin asked for an existing file returns its contents with a
\* success status.
C8_FileFetchSucceeds ==
    \A r \in Slots :
        ( /\ origin.type = "file"
          /\ Has(run[r], "origin-fetch")
          /\ run[r].request.uri \in Files )
        => /\ run[r].fetched.body = FileContents(run[r].request.uri)
           /\ run[r].fetched.status \in SuccessStatuses

\* The port a scheme stands for when none is given.
DefaultPort(scheme) == IF scheme = "https" THEN 443 ELSE 80

\* C9: the upstream request of an http/https fetch goes to the scheme, host
\* and port of the Origin's target when the request has no custom origin
\* parameters and to the custom protocol, domain and port when it has them;
\* a port that is not set is 443 for https and 80 otherwise, and the module
\* used is the one of the scheme.
C9_UpstreamTarget ==
    \A r \in Slots :
        run[r].pc \in {"fetching", "hung", "origin_response", "save"}
        /\ run[r].upstream # NoUpstream =>
            LET up     == run[r].upstream
                custom == run[r].request.origin
                scheme == IF custom.present THEN custom.protocol
                          ELSE origin.baseUrl.scheme
                host   == IF custom.present THEN custom.domainName
                          ELSE origin.baseUrl.host
                port   == IF custom.present THEN custom.port
                          ELSE origin.baseUrl.port
            IN  /\ custom.present = origin.customOrigin.present
                /\ scheme \in {"http", "https"}
                /\ up.protocol = scheme \o ":"
                /\ up.module = scheme
                /\ up.hostname = host
                /\ host # ""
                /\ up.port = IF port # 0 THEN port ELSE DefaultPort(scheme)
                /\ up.path = run[r].request.uri

C9_Witness ==
    \E r \in Slots :
        /\ run[r].pc = "fetching"
        /\ run[r].request.origin.present
        /\ origin.baseUrl.scheme = "http"
        /\ run[r].upstream.module = "https"
        /\ run[r].upstream.hostname = "alt.test"
        /\ run[r].upstream.port = 443

\* C11: of two runs in flight at once for different requests, neither sees
\* in its event what the other has written to its own: the custom headers a
\* run sends upstream are those of the configuration and those its own
\* origin-request handler added, never the header the handler of the other
\* run added for the other request.
C11_RunsAreIsolated ==
    \A r, q \in DOMAIN run :
        ( /\ r # q
          /\ run[r].pc # "idle"
          /\ run[q].pc # "idle"
          /\ run[r].uri0 # run[q].uri0 )
        => HeaderFor(run[q].uri0) \notin run[r].upstream.customHeaders

\* The last stage a run has entered.
LastStage(s) == IF s.trace = <<>> THEN "" ELSE s.trace[Len(s.trace)]

\* C12: when a stage handler, retrieveFromCache or saveToCache raises an
\* error, run fails with that error at that stage: no later stage, cache
\* lookup, cache write or fetch of the run executes, and no stage is entered
\* twice.
C12_ErrorsFailTheRun ==
    /\ [](\A r \in Slots :
            LET s == run[r] IN
            /\ \A i, j \in 1..Len(s.trace) : s.trace[i] = s.trace[j] => i = j
            /\ s.vreq = "error" =>
                  s.error = "HandlerError" /\ LastStage(s) = "viewer-request"
            /\ s.oreq = "error" =>
                  s.error = "HandlerError" /\ LastStage(s) = "origin-request"
            /\ s.oresp = "error" =>
                  s.error = "HandlerError" /\ LastStage(s) = "origin-response"
            /\ s.vresp = "error" =>
                  s.error = "HandlerError" /\ LastStage(s) = "viewer-response"
            /\ s.error = "CacheError" => LastStage(s) \in {"cache", "cache-write"}
            /\ s.error # "" =>
                  /\ s.pc \in {"failed", "unanswered"}
                  /\ s.returned = NoResponse
                  /\ s.res.ends = 0)
    /\ [][\A r \in Slots :
            run[r].error # "" =>
               \/ run'[r] = IdleRun
               \/ /\ run'[r].trace = run[r].trace
                  /\ run'[r].error = run[r].error
                  /\ run'[r].returned = NoResponse]_vars

C12_Witness ==
    \E r \in Slots :
        /\ run[r].pc = "failed"
        /\ run[r].oresp = "error"
        /\ run[r].error = "HandlerError"
        /\ run[r].trace = <<"viewer-request", "cache", "origin-request",
                            "origin-fetch", "origin-response">>

\* C13: after a PURGE no key that it removed has an entry until the next
\* saveToCache, so a run that looks such a key up misses and goes on to the
\* origin-request stage; a PURGE request starts no lifecycle run.
C13_PurgeEmptiesTheStore ==
    /\ [](\A k \in purged : ~cache[k].present)
    /\ [][\A r \in Slots :
            /\ ( /\ run[r].pc = "cache"
                 /\ run'[r].pc # "cache"
                 /\ ~disableCache
                 /\ run[r].request.uri \in purged
                 /\ run'[r].error = "" )
               => /\ run'[r].lookedUp
                  /\ ~run'[r].hit
                  /\ run'[r].pc = "origin_request"
            /\ (purged' # purged /\ purged' # {}) =>
                  /\ run'[r].pc = run[r].pc
                  /\ run'[r].trace = run[r].trace]_vars

C13_Witness ==
    \E r \in Slots :
        /\ purged # {}
        /\ run[r].pc = "origin_request"
        /\ run[r].lookedUp
        /\ ~run[r].hit
        /\ run[r].atCache \in purged

\* Status codes that tell the client of an error.
ErrorStatusCodes == 400..599

\* C14: when the middleware of the listener has returned, the response of
\* the request has been ended exactly once: with the Response of run when
\* run returned one, and with an error status when run threw or returned
\* no Response.
C14_ResponseEndedOnce ==
    \A r \in Slots :
        run[r].pc \in {"answered", "unanswered"} =>
            /\ run[r].res.ends = 1
            /\ (run[r].error = "" /\ run[r].returned # NoResponse) =>
                  /\ ToString(run[r].res.statusCode) = run[r].returned.status
                  /\ run[r].res.body = run[r].returned.body
            /\ (run[r].error # "" \/ run[r].returned = NoResponse) =>
                  run[r].res.statusCode \in ErrorStatusCodes

\* C15: a run whose origin round trip failed, because the fetch failed or
\* because the origin-request or origin-response handler threw, makes no
\* saveToCache call.
C15_NoSaveAfterFailedRoundTrip ==
    \A r \in Slots :
        LET s == run[r]
            handlerThrew == /\ s.pc = "failed"
                            /\ s.error = "HandlerError"
                            /\ s.trace # <<>>
                            /\ s.trace[Len(s.trace)] \in {"origin-request", "origin-response"}
        IN  (s.fetchFailed \/ handlerThrew) => ~Has(s, "cache-write")

\* C16: with disableCache set no run calls retrieveFromCache, and every run
\* whose viewer-request handler returned a Request goes from onCache to the
\* origin-request stage, whatever the store holds.
C16_DisabledCacheIsBypassed ==
    disableCache =>
        \A r \in Slots :
            /\ ~run[r].lookedUp
            /\ ~run[r].hit
            /\ Has(run[r], "cache") =>
                  \/ run[r].pc = "origin_request"
                  \/ /\ Len(run[r].trace) >= 3
                     /\ run[r].trace[3] = "origin-request"

C16_Witness ==
    \E r \in Slots :
        /\ disableCache
        /\ Has(run[r], "cache")
        /\ run[r].pc = "origin_request"
        /\ cache[run[r].atCache].present

\* C18: when the viewer-request handler returns a Request, the cache lookup
\* that follows is made with the Request it returned; when the
\* origin-request handler returns a Request, the origin fetch and the cache
\* write that follow are made with the Request it returned.
C18_ReturnedRequestReplacesCurrent ==
    \A r \in Slots :
        LET s == run[r] IN
        /\ (s.vreq = "request" /\ Has(s, "cache")) => s.atCache = s.vreqUri
        /\ (s.oreq = "request" /\ Has(s, "origin-fetch")) =>
              /\ s.request.uri = s.oreqUri
              /\ s.upstream # NoUpstream => s.upstream.path = s.oreqUri
        /\ (s.oreq = "request" /\ Has(s, "cache-write")) => s.savedKey = s.oreqUri

\* What a viewer-response handler that does out returns for a Response.
ViewerOutput(out, response) ==
    IF out = "pass" THEN response ELSE ViewerResponseResponse

\* The place of a stage in a trace; 0 when the run has not entered it.
Place(s, name) ==
    IF Has(s, name) THEN CHOOSE i \in 1..Len(s.trace) : s.trace[i] = name ELSE 0

C20_OriginParamsOnlyDuringOriginStages ==
    \A r \in Slots :
        LET s == run[r] IN
        /\ s.pc \in {"viewer_request", "cache"} => ~s.request.origin.present
        /\ Has(s, "cache-write") => ~s.request.origin.present
        /\ (s.pc = "viewer_response" \/ Has(s, "viewer-response")) =>
              ~s.request.origin.present
        /\ s.request.origin.present =>
              /\ Has(s, "origin-request")
              /\ ~Has(s, "cache-write")
              /\ ~Has(s, "viewer-response")

C20_Witness ==
    \E r \in Slots :
        /\ origin.customOrigin.present
        /\ run[r].pc = "done"
        /\ FullRoundTrip(run[r])
        /\ run[r].upstream.hostname = "alt.test"
        /\ Has(run[r], "cache-write")
        /\ Has(run[r], "viewer-response")
        /\ ~run[r].request.origin.present


-----------------------------------------------------------------------------
(* Properties of the router.                                               *)

PatternsOf(fnSets) == [i \in 1..Len(fnSets) |-> fnSets[i].pattern]

\* The pattern and the stage a function is bound to in the configuration.
BindingPattern(def) ==
    IF def.lambdaAtEdge.present /\ def.lambdaAtEdge.pathPattern # NoPattern
    THEN def.lambdaAtEdge.pathPattern
    ELSE IF def.cloudFront.present /\ def.cloudFront.pathPattern # NoPattern
         THEN def.cloudFront.pathPattern
         ELSE PatStar

BindingStage(def) ==
    IF def.lambdaAtEdge.present /\ def.lambdaAtEdge.eventType # ""
    THEN def.lambdaAtEdge.eventType
    ELSE IF def.cloudFront.present THEN def.cloudFront.eventType ELSE ""

\* C17: once the behaviors are built the registry holds exactly one
\* FunctionSet for each pattern of a binding (a binding without pattern
\* counts as "*") and one for "*"; each FunctionSet has the origin mapped to
\* its own pattern; and the bindings of one pattern for different stages are
\* all registered on that one FunctionSet.
C17_OneFunctionSetPerPattern ==
    built =>
        LET K == {k \in 1..Len(functions) :
                     functions[k].lambdaAtEdge.present \/ functions[k].cloudFront.present}
            patterns == {BindingPattern(functions[k]) : k \in K} \cup {PatStar}
            I == 1..Len(behaviors)
        IN  /\ {behaviors[i].pattern : i \in I} = patterns
            /\ Len(behaviors) = Cardinality(patterns)
            /\ \A i \in I :
                  LET maps == {m \in 1..Len(originMap) :
                                  originMap[m].pathPattern = behaviors[i].pattern}
                  IN  IF maps = {}
                      THEN behaviors[i].origin = Origin(EmptyTarget, NoCustom)
                      ELSE \E m \in maps :
                              /\ \A n \in maps : n <= m
                              /\ behaviors[i].origin =
                                    Origin(originMap[m].target,
                                           originMap[m].customOriginConfig)
            /\ \A k \in K :
                  BindingStage(functions[k]) \in EventTypes =>
                     \E i \in I :
                        /\ behaviors[i].pattern = BindingPattern(functions[k])
                        /\ behaviors[i].handlers[BindingStage(functions[k])] # ""
                        /\ (\A j \in K :
                               (/\ BindingPattern(functions[j]) = BindingPattern(functions[k])
                                /\ BindingStage(functions[j]) = BindingStage(functions[k]))
                               => j <= k)
                           => behaviors[i].handlers[BindingStage(functions[k])]
                                 = PathJoin(handlerRoot, functions[k].handler)
            /\ \A i \in I : \A e \in EventTypes :
                  behaviors[i].handlers[e] # "" =>
                     \E k \in K : /\ BindingPattern(functions[k]) = behaviors[i].pattern
                                  /\ BindingStage(functions[k]) = e

C17_Witness ==
    /\ built
    /\ Len(behaviors) = 2
    /\ behaviors[1].pattern = PatApi
    /\ behaviors[1].handlers["viewer-request"] = "edge/api.viewer"
    /\ behaviors[1].handlers["origin-request"] = "edge/api.origin"
    /\ behaviors[1].origin.customOrigin.present
    /\ behaviors[2].pattern = PatStar
    /\ behaviors[2].handlers = NoHandlers

\* C10: once the behaviors are built, match of a request with a URL returns
\* the one FunctionSet of the first pattern, in registration order, that
\* matches the path, the "*" FunctionSet when none matches, and never null;
\* with the patterns /api/* and * registered in this order, /api/x gets the
\* /api/* set and /other the * set.
C10_MatchFirstPattern ==
    (matchBuilt /\ built /\ matchUrl.path # NoUrl) =>
        LET path    == matchUrl.path
            hits    == {i \in 1..Len(behaviors) : GlobTest(behaviors[i].pattern, path)}
        IN  /\ ~matched.isNull
            /\ Cardinality({i \in 1..Len(behaviors) :
                               behaviors[i].pattern = matched.pattern}) = 1
            /\ hits # {} =>
                  \E i \in hits : /\ behaviors[i].pattern = matched.pattern
                                  /\ \A j \in hits : i <= j
            /\ hits = {} => matched.pattern = PatStar
            /\ PatternsOf(behaviors) = <<PatApi, PatStar>> =>
                  /\ path = PathApiX => matched.pattern = PatApi
                  /\ path = PathOther => matched.pattern = PatStar

C10_Witness ==
    /\ matchBuilt
    /\ PatternsOf(behaviors) = <<PatApi, PatStar>>
    /\ matchUrl = Url(PathApiX, "?v=1")
    /\ matched.pattern = PatApi

====
